---- MODULE Spec2Model ----
(***************************************************************************)
(* Model of data_manager_corenlp_models.py: the Galaxy data manager that   *)
(* downloads Stanford CoreNLP model JARs and registers them in a JSON      *)
(* manifest.  The state is the file system the script acts on, the parsed  *)
(* arguments of the current run, the locals of main() and the position of  *)
(* main() in its straight-line control flow.                               *)
(***************************************************************************)
EXTENDS Naturals, Sequences, FiniteSets, TLC

----------------------------------------------------------------------------
(* Bounds of the model *)

\* longest list of --language options of one run
MaxLangs == 2
\* number of runs in a sequence of runs (RunsSpec)
MaxRuns == 2

----------------------------------------------------------------------------
(* The catalog: CORENLP_VERSION, COMMON_MODELS, LANGUAGE_MODELS *)

CORENLP_VERSION == "4.5.10"

COMMON_MODELS ==
    [name |-> "Common Models",
     jar_name |-> "stanford-corenlp-4.5.10-models.jar",
     url |-> "https://repo1.maven.org/maven2/edu/stanford/nlp/stanford-corenlp/4.5.10/stanford-corenlp-4.5.10-models.jar"]

LANGUAGE_MODELS ==
    [ar |-> [name |-> "Arabic",
             jar_name |-> "stanford-corenlp-4.5.10-models-arabic.jar",
             url |-> "https://repo1.maven.org/maven2/edu/stanford/nlp/stanford-corenlp/4.5.10/stanford-corenlp-4.5.10-models-arabic.jar"],
     zh |-> [name |-> "Chinese",
             jar_name |-> "stanford-corenlp-4.5.10-models-chinese.jar",
             url |-> "https://repo1.maven.org/maven2/edu/stanford/nlp/stanford-corenlp/4.5.10/stanford-corenlp-4.5.10-models-chinese.jar"],
     en |-> [name |-> "English",
             jar_name |-> "stanford-corenlp-4.5.10-models-english.jar",
             url |-> "https://repo1.maven.org/maven2/edu/stanford/nlp/stanford-corenlp/4.5.10/stanford-corenlp-4.5.10-models-english.jar"],
     fr |-> [name |-> "French",
             jar_name |-> "stanford-corenlp-4.5.10-models-french.jar",
             url |-> "https://repo1.maven.org/maven2/edu/stanford/nlp/stanford-corenlp/4.5.10/stanford-corenlp-4.5.10-models-french.jar"],
     de |-> [name |-> "German",
             jar_name |-> "stanford-corenlp-4.5.10-models-german.jar",
             url |-> "https://repo1.maven.org/maven2/edu/stanford/nlp/stanford-corenlp/4.5.10/stanford-corenlp-4.5.10-models-german.jar"],
     hu |-> [name |-> "Hungarian",
             jar_name |-> "stanford-corenlp-4.5.10-models-hungarian.jar",
             url |-> "https://repo1.maven.org/maven2/edu/stanford/nlp/stanford-corenlp/4.5.10/stanford-corenlp-4.5.10-models-hungarian.jar"],
     it |-> [name |-> "Italian",
             jar_name |-> "stanford-corenlp-4.5.10-models-italian.jar",
             url |-> "https://repo1.maven.org/maven2/edu/stanford/nlp/stanford-corenlp/4.5.10/stanford-corenlp-4.5.10-models-italian.jar"],
     es |-> [name |-> "Spanish",
             jar_name |-> "stanford-corenlp-4.5.10-models-spanish.jar",
             url |-> "https://repo1.maven.org/maven2/edu/stanford/nlp/stanford-corenlp/4.5.10/stanford-corenlp-4.5.10-models-spanish.jar"]]

\* the choices= of --language: LANGUAGE_MODELS.keys()
SupportedLanguages == DOMAIN LANGUAGE_MODELS

\* the catalog entry of an identifier: "common" or a language code
ModelInfo(id) == IF id = "common" THEN COMMON_MODELS ELSE LANGUAGE_MODELS[id]

----------------------------------------------------------------------------
(* Paths.  A path is the sequence of its components; an absolute path      *)
(* starts with the root "/".  The file system is keyed by absolute paths.  *)

\* the working directory of the process
Cwd == <<"/", "galaxy">>

\* argparse's value of an option that was not given
None == <<>>

IsAbsolute(p) == p # <<>> /\ Head(p) = "/"

\* Path.absolute(): a relative path is anchored at the working directory
Absolute(p) == IF IsAbsolute(p) THEN p ELSE Cwd \o p

\* target_dir / jar_name
JarPath(target_dir, id) == Append(target_dir, ModelInfo(id).jar_name)

\* the spellings of --target-directory the runs use: one directory, named
\* relative to the working directory or absolutely
TargetDirs == {<<"models">>, <<"/", "galaxy", "models">>}

TargetDirAbs == <<"/", "galaxy", "models">>

\* the data-table file and the output file the runs name
DtPath == <<"/", "galaxy", "tool-data", "corenlp_models.loc">>

OutPath == <<"/", "galaxy", "job", "out.json">>

\* the identifiers the runs of the model request; "xx" is no key of
\* LANGUAGE_MODELS
RequestCodes == {"en", "de", "xx"}

ModelIds == {"common", "en", "de"}

JarPaths == {Absolute(JarPath(TargetDirAbs, id)) : id \in ModelIds}

AllPaths == JarPaths \cup {TargetDirAbs, DtPath, OutPath}

----------------------------------------------------------------------------
(* File contents *)

Absent == [kind |-> "absent"]

\* a directory
Dir == [kind |-> "dir"]

CompleteJar == [kind |-> "jar", state |-> "complete"]

PartialJar == [kind |-> "jar", state |-> "partial"]

TsvFile(lines) == [kind |-> "tsv", lines |-> lines]

\* a line of a tab-separated file is a sequence of tokens: the tab, the
\* blank, the comment mark, and words without white space
TAB == "\t"

SP == " "

HASH == "#"

\* data-table files: an empty one; a header comment, the common entry and a
\* blank line; indented and one-column lines; a comment and a line that
\* starts with a tab; a first column with a trailing blank
TableEmpty == TsvFile(<< >>)

TableCommon ==
    TsvFile(<< <<HASH, "value", TAB, "name", TAB, "lang_code", TAB, "models_path">>,
               <<"common", TAB, "Common", SP, "Models", TAB, "common", TAB, "/m/c.jar">>,
               <<SP, SP>> >>)

TableEnDe ==
    TsvFile(<< <<SP, "en", TAB, "English", TAB, "en", TAB, "/m/e.jar">>,
               << >>,
               <<"de">> >>)

TableTabEn ==
    TsvFile(<< <<SP, HASH, "de", TAB, "German">>,
               <<TAB, "en", TAB>> >>)

TableEnBlank ==
    TsvFile(<< <<"en", SP, TAB, "English">>,
               <<"common", TAB, "Common", SP, "Models">> >>)

\* the data-table files the runs find at DtPath
DataTableFiles == {TableEmpty, TableCommon, TableEnDe, TableTabEn, TableEnBlank}

----------------------------------------------------------------------------
(* load_existing_models *)

IsSpace(t) == t \in {SP, TAB}

RECURSIVE LStrip(_)
LStrip(s) == IF s # <<>> /\ IsSpace(Head(s)) THEN LStrip(Tail(s)) ELSE s

RECURSIVE RStrip(_)
RStrip(s) ==
    IF s # <<>> /\ IsSpace(s[Len(s)]) THEN RStrip(SubSeq(s, 1, Len(s) - 1)) ELSE s

\* str.strip()
Strip(s) == LStrip(RStrip(s))

\* line.split('\t')[0]
RECURSIVE FirstField(_)
FirstField(s) ==
    IF s = <<>> \/ Head(s) = TAB THEN <<>> ELSE <<Head(s)>> \o FirstField(Tail(s))

\* a line that is neither empty after strip() nor a comment
IsDataLine(line) == Strip(line) # <<>> /\ Head(Strip(line)) # HASH

\* the set of first columns of the data-table file; the empty set when no
\* path is given or no file is there
load_existing_models(data_table_path, files) ==
    IF data_table_path # None /\ files[Absolute(data_table_path)].kind # "absent"
    THEN LET lines == files[Absolute(data_table_path)].lines
         IN  {FirstField(Strip(lines[i])) : i \in {j \in DOMAIN lines : IsDataLine(lines[j])}}
    ELSE {}

\* the first column that is the string id
Field(id) == <<id>>

\* variant: the membership test never finds the identifier
AlreadyRegisteredNever(id, existing) == FALSE

\* "common" in existing_models, lang_code in existing_models
AlreadyRegistered(id, existing) == Field(id) \in existing

----------------------------------------------------------------------------
(* download_model *)

\* variant: urlretrieve is called without the destination and saves to a
\* temporary file
download_model_to_temp(url, target_path, files) ==
    { [ok |-> TRUE, files |-> files], [ok |-> FALSE, files |-> files] }

\* The results of download_model(url, target_path): True with the complete
\* file written, or False with the destination as it was (urlretrieve
\* failed before it opened the file) or holding the part that was written.
download_model(url, target_path, files) ==
    { [ok |-> TRUE, files |-> [files EXCEPT ![Absolute(target_path)] = CompleteJar]],
      [ok |-> FALSE, files |-> files],
      [ok |-> FALSE, files |-> [files EXCEPT ![Absolute(target_path)] = PartialJar]] }

\* variant: the exists() test is missing and every archive is downloaded
JarExistsNever(jar_path, files) == FALSE

\* jar_path.exists()
JarExists(jar_path, files) == files[Absolute(jar_path)].kind # "absent"

\* variant: the common track registers only after a successful download
CommonRegistersOnSuccess(ok) == ok

\* the common track registers whatever download_model returned
CommonRegisters(ok) == TRUE

\* variant: the continue statement is missing
LanguageRegistersAlways(ok) == TRUE

\* the language track registers unless download_model returned False
\* (the continue statement)
LanguageRegisters(ok) == ok

\* the data table entry of an identifier
Entry(id, jar_path) ==
    [value |-> id,
     name |-> ModelInfo(id).name,
     lang_code |-> id,
     models_path |-> Absolute(jar_path)]

\* variant: the entry is inserted at the front of the list
PrependEntry(entries, e) == <<e>> \o entries

\* data_table_entries.append(entry)
AppendEntry(entries, e) == Append(entries, e)

\* variant: the table is left out of the output when nothing was registered
data_manager_output_unless_empty(entries) ==
    IF entries = <<>>
    THEN [data_tables |-> [none |-> <<>>]]
    ELSE [data_tables |-> [corenlp_models |-> entries]]

\* data_manager_output
data_manager_output(entries) == [data_tables |-> [corenlp_models |-> entries]]

\* json.dump(data_manager_output, f)
JsonFile(doc) == [kind |-> "json", doc |-> doc]

\* variant: the output is written to the data-table path when one is given
OutputFileDataTable(a) == IF a.data_table # None THEN a.data_table ELSE a.output

\* the file open(args.output, "w") writes
OutputFile(a) == a.output

\* argparse: every --language is one of the choices
LanguagesSupported(a) ==
    \A i \in DOMAIN a.language : a.language[i] \in SupportedLanguages

\* variant: the check that something is requested is missing
NothingRequestedIgnored(a) == FALSE

\* "not args.language and not args.common_models"
NothingRequested(a) == a.language = <<>> /\ ~a.common_models

----------------------------------------------------------------------------
(* State *)

VARIABLES
    fs,                  \* the file system: absolute path -> content
    args,                \* the parsed arguments of the current run
    pc,                  \* the position of main()
    existing_models,     \* main's existing_models
    data_table_entries,  \* main's data_table_entries
    idx,                 \* position of the for loop in args.language
    trace,               \* what the run did for each identifier it processed
    pre,                 \* the file system when the run started
    wrote,               \* number of writes of the output file in this run
    dtRead,              \* the run has read the data-table file
    fetched,             \* identifiers whose download has succeeded, in any run
    runs                 \* number of runs started

vars == <<fs, args, pc, existing_models, data_table_entries, idx,
          trace, pre, wrote, dtRead, fetched, runs>>

\* all lists over S of length at most n
SeqsUpTo(S, n) == UNION {[1..k -> S] : k \in 0..n}

\* the argument lists of a run
ArgSpace(codes, dirs, outputs, tables) ==
    [language : SeqsUpTo(codes, MaxLangs),
     common_models : BOOLEAN,
     target_directory : dirs,
     output : outputs,
     data_table : tables]

\* the file systems a first run can find: archives of earlier downloads in
\* the target directory, a data-table file or none, no output file yet
InitialFileSystems(jarStates, tables) ==
    {f \in [AllPaths -> jarStates \cup tables \cup {Absent, Dir}] :
        /\ f[TargetDirAbs] \in {Absent, Dir}
        /\ \A p \in JarPaths : f[p] \in jarStates
        /\ (\E p \in JarPaths : f[p] # Absent) => f[TargetDirAbs] = Dir
        /\ f[DtPath] \in tables
        /\ f[OutPath] = Absent}

InitRun(a, f) ==
    /\ fs = f
    /\ args = a
    /\ pc = "parse_args"
    /\ existing_models = {}
    /\ data_table_entries = <<>>
    /\ idx = 1
    /\ trace = <<>>
    /\ pre = f
    /\ wrote = 0
    /\ dtRead = FALSE
    /\ fetched = {}
    /\ runs = 1

\* one run, any arguments, on any file system
Init ==
    \E a \in ArgSpace(RequestCodes, TargetDirs, {OutPath, DtPath}, {None, DtPath}),
       f \in InitialFileSystems({Absent, CompleteJar, PartialJar},
                                DataTableFiles \cup {Absent}) :
        InitRun(a, f)

----------------------------------------------------------------------------
(* main, step by step *)

\* parser.parse_args() and the check that something is requested
ParseArgs ==
    /\ pc = "parse_args"
    /\ pc' = IF LanguagesSupported(args) /\ ~NothingRequested(args)
             THEN "load" ELSE "usage_error"
    /\ UNCHANGED <<fs, args, existing_models, data_table_entries, idx,
                   trace, pre, wrote, dtRead, fetched, runs>>

\* existing_models = load_existing_models(args.data_table)
LoadExisting ==
    /\ pc = "load"
    /\ existing_models' = load_existing_models(args.data_table, fs)
    /\ dtRead' = (args.data_table # None /\ fs[Absolute(args.data_table)].kind # "absent")
    /\ pc' = "mkdir"
    /\ UNCHANGED <<fs, args, data_table_entries, idx, trace, pre, wrote,
                   fetched, runs>>

\* target_dir.mkdir(parents=True, exist_ok=True)
Mkdir ==
    /\ pc = "mkdir"
    /\ fs' = [fs EXCEPT ![Absolute(args.target_directory)] = Dir]
    /\ pc' = "common"
    /\ UNCHANGED <<args, existing_models, data_table_entries, idx, trace, pre,
                   wrote, dtRead, fetched, runs>>

\* mkdir raises: the directory is not there and cannot be created
MkdirFails ==
    /\ pc = "mkdir"
    /\ fs[Absolute(args.target_directory)] = Absent
    /\ pc' = "mkdir_error"
    /\ UNCHANGED <<fs, args, existing_models, data_table_entries, idx,
                   trace, pre, wrote, dtRead, fetched, runs>>

Did(id, outcome) == [id |-> id, outcome |-> outcome]

\* whether a track appends the entry after download_model returned ok
Registers(track, ok) ==
    IF track = "common" THEN CommonRegisters(ok) ELSE LanguageRegisters(ok)

\* One identifier through the skip / exists / download / register steps,
\* which the two tracks spell out alike up to the decision after a download.
Process(id, track) ==
    LET jar_path == JarPath(args.target_directory, id) IN
    IF AlreadyRegistered(id, existing_models)
    THEN /\ trace' = Append(trace, Did(id, "skipped"))
         /\ UNCHANGED <<fs, data_table_entries, fetched>>
    ELSE IF JarExists(jar_path, fs)
    THEN /\ trace' = Append(trace, Did(id, "exists"))
         /\ data_table_entries' = AppendEntry(data_table_entries, Entry(id, jar_path))
         /\ UNCHANGED <<fs, fetched>>
    ELSE \E r \in download_model(ModelInfo(id).url, jar_path, fs) :
         /\ fs' = r.files
         /\ trace' = Append(trace, Did(id, IF r.ok THEN "downloaded" ELSE "failed"))
         /\ fetched' = IF r.ok THEN fetched \cup {id} ELSE fetched
         /\ data_table_entries' =
                IF Registers(track, r.ok)
                THEN AppendEntry(data_table_entries, Entry(id, jar_path))
                ELSE data_table_entries

\* "if args.common_models:" with the flag not set
NoCommon ==
    /\ pc = "common"
    /\ ~args.common_models
    /\ pc' = "language"
    /\ UNCHANGED <<fs, args, existing_models, data_table_entries, idx,
                   trace, pre, wrote, dtRead, fetched, runs>>

\* the common track
ProcessCommon ==
    /\ pc = "common"
    /\ args.common_models
    /\ Process("common", "common")
    /\ pc' = "language"
    /\ UNCHANGED <<args, existing_models, idx, pre, wrote, dtRead, runs>>

\* one iteration of "for lang_code in args.language"
ProcessLanguage ==
    /\ pc = "language"
    /\ idx <= Len(args.language)
    /\ Process(args.language[idx], "language")
    /\ idx' = idx + 1
    /\ UNCHANGED <<args, pc, existing_models, pre, wrote, dtRead, runs>>

\* json.dump(data_manager_output, f) into open(args.output, "w")
WriteManifest ==
    /\ pc = "language"
    /\ idx > Len(args.language)
    /\ fs' = [fs EXCEPT ![Absolute(OutputFile(args))] =
                           JsonFile(data_manager_output(data_table_entries))]
    /\ wrote' = wrote + 1
    /\ pc' = "done"
    /\ UNCHANGED <<args, existing_models, data_table_entries, idx, trace,
                   pre, dtRead, fetched, runs>>

Next ==
    \/ ParseArgs
    \/ LoadExisting
    \/ Mkdir
    \/ MkdirFails
    \/ NoCommon
    \/ ProcessCommon
    \/ ProcessLanguage
    \/ WriteManifest

Spec == Init /\ [][Next]_vars

----------------------------------------------------------------------------
(* Sequences of runs against the same target directory *)

\* the arguments of the runs of a sequence
RunsArgs == ArgSpace({"de"}, TargetDirs, {OutPath}, {None, DtPath})

InitRuns ==
    \E a \in RunsArgs,
       f \in InitialFileSystems({Absent, CompleteJar}, {TableEnDe, TableCommon}) :
        InitRun(a, f)

\* the process has exited; the script is started again on the file system
\* the earlier runs left
NewRun ==
    /\ pc \in {"done", "usage_error", "mkdir_error"}
    /\ runs < MaxRuns
    /\ \E a \in RunsArgs : args' = a
    /\ pc' = "parse_args"
    /\ existing_models' = {}
    /\ data_table_entries' = <<>>
    /\ idx' = 1
    /\ trace' = <<>>
    /\ pre' = fs
    /\ wrote' = 0
    /\ dtRead' = FALSE
    /\ runs' = runs + 1
    /\ UNCHANGED <<fs, fetched>>

NextRuns ==
    \/ Next
    \/ NewRun

RunsSpec == InitRuns /\ [][NextRuns]_vars

----------------------------------------------------------------------------
(* Vocabulary of the properties *)

\* the identifiers a run is asked for, in processing order
Requested(a) == (IF a.common_models THEN <<"common">> ELSE <<>>) \o a.language

\* the positions of a list of entries whose lang_code or value is id
EntriesOf(entries, id) ==
    {i \in DOMAIN entries : entries[i].lang_code = id \/ entries[i].value = id}

\* the positions of the trace at which the run called download_model for id
DownloadsOf(id) ==
    {i \in DOMAIN trace : trace[i].id = id /\ trace[i].outcome \in {"downloaded", "failed"}}

\* the positions of the trace at which the run processed id with this outcome
TraceOf(id, outcomes) ==
    {i \in DOMAIN trace : trace[i].id = id /\ trace[i].outcome \in outcomes}

\* the entries of the manifest the run wrote
Manifest == fs[Absolute(args.output)].doc.data_tables.corenlp_models

\* the destination of an identifier's archive, as an absolute path
Destination(id) == TargetDirAbs \o <<ModelInfo(id).jar_name>>

\* the language codes the runs of the model request that are supported
Codes == {"en", "de"}

\* the run has processed every requested identifier, in the order requested
AllProcessed ==
    /\ Len(trace) = Len(Requested(args))
    /\ \A i \in DOMAIN trace : trace[i].id = Requested(args)[i]

----------------------------------------------------------------------------
(* C1 *)

\* C1: an identifier that is requested and is in the ExistingSet loaded from
\* the data-table file is never downloaded and never registered: no call of
\* download_model for it, no entry for it in data_table_entries, and none in
\* the manifest the run writes.
C1_ExistingSkipped ==
    \A id \in ModelIds :
        Field(id) \in existing_models =>
            /\ DownloadsOf(id) = {}
            /\ EntriesOf(data_table_entries, id) = {}
            /\ pc = "done" => EntriesOf(Manifest, id) = {}

\* C1 witness: a finished run that requested an identifier of the ExistingSet
\* twice, with that identifier's archive present in the target directory
C1_Witness ==
    /\ pc = "done"
    /\ \E i, j \in DOMAIN trace :
        /\ i < j
        /\ trace[i].id = trace[j].id
        /\ trace[i].outcome = "skipped"
        /\ trace[j].outcome = "skipped"
        /\ Field(trace[i].id) \in existing_models
        /\ pre[Destination(trace[i].id)] = CompleteJar

----------------------------------------------------------------------------
(* C2 *)

\* C2 as stated: when download_model failed for a requested language code
\* whose destination did not exist before the run, the manifest has no entry
\* for that code, and every requested code was processed.
C2_Original ==
    pc = "done" =>
        \A i \in DOMAIN trace :
            (/\ trace[i].id # "common"
             /\ trace[i].outcome = "failed"
             /\ pre[Destination(trace[i].id)] = Absent)
            => /\ EntriesOf(Manifest, trace[i].id) = {}
               /\ AllProcessed

\* C2 amended: the request at which download_model failed adds no entry: the
\* manifest's entries for that code are exactly those of the later requests
\* of the same code that downloaded it or found a file at the destination;
\* and every requested code was processed before the manifest was written.
C2_FailedRequestAddsNothing ==
    pc = "done" =>
        \A i \in DOMAIN trace :
            (/\ trace[i].id # "common"
             /\ trace[i].outcome = "failed"
             /\ pre[Destination(trace[i].id)] = Absent)
            => /\ Cardinality(EntriesOf(Manifest, trace[i].id))
                    = Cardinality({j \in TraceOf(trace[i].id, {"downloaded", "exists"}) : j > i})
               /\ AllProcessed

\* C2 witness: a finished run in which the download of a language failed, no
\* entry for it is in the manifest, and a language requested after it was
\* downloaded and registered
C2_Witness ==
    /\ pc = "done"
    /\ \E i, j \in DOMAIN trace :
        /\ i < j
        /\ trace[i].id \in Codes
        /\ trace[i].outcome = "failed"
        /\ pre[Destination(trace[i].id)] = Absent
        /\ EntriesOf(Manifest, trace[i].id) = {}
        /\ trace[j].outcome = "downloaded"
        /\ EntriesOf(Manifest, trace[j].id) # {}

----------------------------------------------------------------------------
(* C3 *)

\* C3: when the common track called download_model and it failed, the run
\* still has exactly one entry for "common", with value "common" and the
\* absolute destination path, and the language track is processed after it:
\* the finished run has processed every request and its manifest holds that
\* entry.
C3_CommonRegisteredDespiteFailure ==
    (trace # <<>> /\ trace[1] = Did("common", "failed")) =>
        /\ Cardinality(EntriesOf(data_table_entries, "common")) = 1
        /\ data_table_entries[1] =
              [value |-> "common", name |-> "Common Models", lang_code |-> "common",
               models_path |-> <<"/", "galaxy", "models", "stanford-corenlp-4.5.10-models.jar">>]
        /\ pc = "done" =>
              /\ AllProcessed
              /\ Cardinality(EntriesOf(Manifest, "common")) = 1
              /\ Manifest[1] = data_table_entries[1]

\* C3 witness: a finished run whose common download failed, with a relative
\* --target-directory and a language processed after it
C3_Witness ==
    /\ pc = "done"
    /\ trace # <<>>
    /\ trace[1] = Did("common", "failed")
    /\ ~IsAbsolute(args.target_directory)
    /\ Len(trace) > 1
    /\ Cardinality(EntriesOf(Manifest, "common")) = 1

----------------------------------------------------------------------------
(* C4 *)

\* the number of times a code is requested
Occurrences(a, id) == Cardinality({i \in DOMAIN a.language : a.language[i] = id})

\* C4 as stated: a requested language code whose destination existed when
\* the run started is never downloaded and has exactly one entry in the
\* manifest, with the absolute path of that file.
C4_Original ==
    pc = "done" =>
        \A id \in Codes :
            (Occurrences(args, id) > 0 /\ pre[Destination(id)] # Absent) =>
                /\ DownloadsOf(id) = {}
                /\ Cardinality(EntriesOf(Manifest, id)) = 1
                /\ \A i \in EntriesOf(Manifest, id) : Manifest[i].models_path = Destination(id)

\* C4 amended: a requested language code whose destination existed when the
\* run started is never downloaded; the manifest has no entry for it when the
\* code is in the ExistingSet, and otherwise one entry for each time the code
\* is requested, each with the absolute path of that file.
C4_ExistingFileRegisteredPerRequest ==
    pc = "done" =>
        \A id \in Codes :
            (Occurrences(args, id) > 0 /\ pre[Destination(id)] # Absent) =>
                /\ DownloadsOf(id) = {}
                /\ Cardinality(EntriesOf(Manifest, id))
                     = IF Field(id) \in existing_models THEN 0 ELSE Occurrences(args, id)
                /\ \A i \in EntriesOf(Manifest, id) : Manifest[i].models_path = Destination(id)

\* C4 witness: a finished run that requested once a code whose file existed
\* and is not in the ExistingSet, and registered it without a download
C4_Witness ==
    /\ pc = "done"
    /\ \E id \in Codes :
        /\ Occurrences(args, id) = 1
        /\ pre[Destination(id)] # Absent
        /\ Field(id) \notin existing_models
        /\ Cardinality(EntriesOf(Manifest, id)) = 1
        /\ TraceOf(id, {"exists"}) # {}

----------------------------------------------------------------------------
(* C5 *)

\* the lang_code values of a list of entries
RECURSIVE LangCodes(_)
LangCodes(entries) ==
    IF entries = <<>> THEN <<>> ELSE <<Head(entries).lang_code>> \o LangCodes(Tail(entries))

\* s can be obtained from t by deleting elements
RECURSIVE IsSubsequence(_, _)
IsSubsequence(s, t) ==
    IF s = <<>> THEN TRUE
    ELSE IF t = <<>> THEN FALSE
    ELSE IF Head(s) = Head(t) THEN IsSubsequence(Tail(s), Tail(t))
    ELSE IsSubsequence(s, Tail(t))

\* a run that found no archive and no registered identifier, and whose
\* downloads all succeeded
FreshAndSuccessful ==
    /\ existing_models = {}
    /\ \A p \in JarPaths : pre[p] = Absent
    /\ \A i \in DOMAIN trace : trace[i].outcome # "failed"

\* C5: the lang_code values of the entries, in the list main accumulates and
\* in the manifest it writes, are a subsequence of "common" (when requested)
\* followed by the requested codes in input order; a fresh run whose
\* downloads all succeed writes exactly that whole sequence.
C5_ManifestOrder ==
    /\ IsSubsequence(LangCodes(data_table_entries), Requested(args))
    /\ pc = "done" =>
          /\ IsSubsequence(LangCodes(Manifest), Requested(args))
          /\ FreshAndSuccessful => LangCodes(Manifest) = Requested(args)

\* C5 witness: a fresh run for the common models and two languages wrote the
\* three entries common, en, de in that order
C5_Witness ==
    /\ pc = "done"
    /\ FreshAndSuccessful
    /\ args.common_models
    /\ args.language = <<"en", "de">>
    /\ LangCodes(Manifest) = <<"common", "en", "de">>

----------------------------------------------------------------------------
(* C6 *)

\* C6: a run with neither --common-models nor a --language, or with a
\* --language outside ar, zh, en, fr, de, hu, it, es, never gets past the
\* argument parser: it reads no data table, changes nothing in the file
\* system (no directory, no archive, no manifest), and downloads nothing.
C6_UsageErrorBeforeAnyEffect ==
    (\/ (args.language = <<>> /\ ~args.common_models)
     \/ \E i \in DOMAIN args.language :
           args.language[i] \notin {"ar", "zh", "en", "fr", "de", "hu", "it", "es"})
    => /\ pc \in {"parse_args", "usage_error"}
       /\ ~dtRead
       /\ fs = pre
       /\ trace = <<>>
       /\ wrote = 0

\* C6 witness: a run with an unsupported code has ended in the usage error,
\* with a data-table file named and present and the target directory absent
C6_Witness ==
    /\ pc = "usage_error"
    /\ \E i \in DOMAIN args.language : args.language[i] = "xx"
    /\ args.data_table = DtPath
    /\ fs[DtPath] = TableCommon
    /\ fs[TargetDirAbs] = Absent

----------------------------------------------------------------------------
(* C7 *)

\* main runs to its end: the process keeps taking steps
FairSpec == Init /\ [][Next]_vars /\ WF_vars(Next)

\* the output file holds the manifest of the accumulated entries
ManifestWritten ==
    /\ wrote = 1
    /\ AllProcessed
    /\ fs[Absolute(args.output)] =
          [kind |-> "json",
           doc |-> [data_tables |-> [corenlp_models |-> data_table_entries]]]

----------------------------------------------------------------------------
(* C8 *)

\* the paths at which the file system differs from the one the run found
Changed == {p \in AllPaths : fs[p] # pre[p]}

\* the run changes only the target directory, the destinations of the
\* requested archives and the output file
OnlyArchivesAndManifest ==
    \A p \in Changed :
        \/ p = Absolute(args.output)
        \/ p = TargetDirAbs
        \/ \E i \in DOMAIN Requested(args) :
              /\ Requested(args)[i] \in ModelIds
              /\ p = Destination(Requested(args)[i])

\* C8 as stated: whatever the arguments, the file the data-table argument
\* names is the same after the run as before it, and the run writes only
\* archives and the manifest.
C8_Original ==
    /\ args.data_table # None => fs[Absolute(args.data_table)] = pre[Absolute(args.data_table)]
    /\ OnlyArchivesAndManifest

\* C8 amended: when the data-table argument names a file other than the
\* output file and other than an archive's destination, that file is the
\* same after the run as before it; and the run writes only archives and the
\* manifest.
C8_DataTableUntouchedUnlessAliased ==
    /\ (/\ args.data_table # None
        /\ Absolute(args.data_table) # Absolute(args.output)
        /\ Absolute(args.data_table) \notin JarPaths)
       => fs[Absolute(args.data_table)] = pre[Absolute(args.data_table)]
    /\ OnlyArchivesAndManifest

\* C8 witness: a finished run that read its data table, downloaded an archive
\* and wrote its manifest to another path
C8_Witness ==
    /\ pc = "done"
    /\ args.data_table = DtPath
    /\ args.output = OutPath
    /\ dtRead
    /\ OutPath \in Changed
    /\ \E i \in DOMAIN trace : trace[i].outcome = "downloaded"
    /\ fs[DtPath] = pre[DtPath]

----------------------------------------------------------------------------
(* C9 *)

\* this step calls download_model for id
DownloadStep(id) ==
    /\ Len(trace') = Len(trace) + 1
    /\ trace'[Len(trace')].id = id
    /\ trace'[Len(trace')].outcome \in {"downloaded", "failed"}

\* C9: once a download of an identifier's archive has succeeded, no later
\* step of the same run or of a later run against the same target directory
\* calls download_model for that identifier.
C9_NoDownloadAfterSuccess ==
    [][\A id \in fetched : ~DownloadStep(id)]_vars

\* C9 witness: a later run, in whose ExistingSet the identifier is not, found
\* the archive an earlier run had downloaded and did not download it
C9_Witness ==
    /\ runs > 1
    /\ "de" \in fetched
    /\ Field("de") \notin existing_models
    /\ TraceOf("de", {"exists"}) # {}
    /\ DownloadsOf("de") = {}

----------------------------------------------------------------------------
(* C10 *)

\* C10: a language entry is registered only when its archive is complete:
\* it was complete before the first download of it, or a download of it has
\* succeeded.  A file a failed download left is never registered.
C10_OnlyCompleteArchivesRegistered ==
    \A i \in DOMAIN data_table_entries :
        data_table_entries[i].lang_code # "common" =>
            fs[data_table_entries[i].models_path] = CompleteJar

====
